---- MODULE Spec2Model ----
(***************************************************************************)
(* Model of telegram_notification_bot.py: the module-level startup         *)
(* (environment, load_rules), the polling loop of main, and the handler    *)
(* handle_channel_post -> match_and_send with its one suspension point,    *)
(* the awaited send_message.                                               *)
(*                                                                         *)
(* Texts are sequences of characters.  A regular expression is modelled    *)
(* by its parsed form: an optional leading "^" and a sequence of elements, *)
(* each a literal character or a named group over a character class,       *)
(* possibly optional "(?P<name>[..])?".  A template is a sequence of       *)
(* pieces: a literal character, a variable reference "{{name}}" or an      *)
(* expression that raises when rendered (such as "{{ 1/0 }}").             *)
(***************************************************************************)
EXTENDS Integers, Sequences, FiniteSets, TLC

\* Bounds of the model.
MaxRules == 2
MaxTextLen == 2

NL == "\n"
Chars == {"E", "4", NL}

RECURSIVE SeqsUpTo(_, _)
SeqsUpTo(S, n) ==
    IF n = 0 THEN {<<>>}
    ELSE LET shorter == SeqsUpTo(S, n - 1)
         IN  shorter \cup {Append(s, c) : s \in {t \in shorter : Len(t) = n - 1}, c \in S}

Texts == SeqsUpTo(Chars, MaxTextLen)

(***************************************************************************)
(* Python values.                                                          *)
(***************************************************************************)
\* A str value or None, as found in a groupdict.
Str(s) == [isNone |-> FALSE, s |-> s]
NoneVal == [isNone |-> TRUE, s |-> <<>>]

DigitVal(c) ==
    CASE c = "0" -> 0 [] c = "1" -> 1 [] c = "2" -> 2 [] c = "3" -> 3 [] c = "4" -> 4
      [] c = "5" -> 5 [] c = "6" -> 6 [] c = "7" -> 7 [] c = "8" -> 8 [] c = "9" -> 9
Digits == {"0", "1", "2", "3", "4", "5", "6", "7", "8", "9"}

RECURSIVE DigitsVal(_, _)
DigitsVal(s, acc) ==
    IF s = <<>> THEN acc ELSE DigitsVal(Tail(s), acc * 10 + DigitVal(Head(s)))

\* int(s) for a str s: an optional sign and one or more digits, else ValueError.
int_of_str(s) ==
    LET signed == s # <<>> /\ Head(s) \in {"-", "+"}
        body   == IF signed THEN Tail(s) ELSE s
    IN  IF body = <<>> \/ \E k \in 1..Len(body) : body[k] \notin Digits
        THEN [ok |-> FALSE, n |-> 0]
        ELSE [ok |-> TRUE,
              n  |-> IF signed /\ Head(s) = "-" THEN 0 - DigitsVal(body, 0)
                     ELSE DigitsVal(body, 0)]

(***************************************************************************)
(* YAML values of a rule entry.  A scalar is [ty, n, s]: ty its YAML type, *)
(* n its number (an int's value, a float's value in tenths, a bool's 0/1), *)
(* s its characters when it is a str.                                      *)
(***************************************************************************)
YAbsent == [ty |-> "absent", n |-> 0, s |-> <<>>]
YNull == [ty |-> "null", n |-> 0, s |-> <<>>]
YInt(n) == [ty |-> "int", n |-> n, s |-> <<>>]
YFloat(tenths) == [ty |-> "float", n |-> tenths, s |-> <<>>]
YBool(b) == [ty |-> "bool", n |-> IF b THEN 1 ELSE 0, s |-> <<>>]
YStr(s) == [ty |-> "str", n |-> 0, s |-> s]

\* int(v) of line 59 for a YAML scalar v.
int_of(v) ==
    CASE v.ty = "int" -> [ok |-> TRUE, n |-> v.n]
      [] v.ty = "bool" -> [ok |-> TRUE, n |-> v.n]
      [] v.ty = "float" ->
            [ok |-> TRUE, n |-> IF v.n >= 0 THEN v.n \div 10 ELSE 0 - ((0 - v.n) \div 10)]
      [] v.ty = "str" -> int_of_str(v.s)
      [] OTHER -> [ok |-> FALSE, n |-> 0]

(***************************************************************************)
(* Regular expressions.                                                    *)
(***************************************************************************)
Lit(c) == [kind |-> "lit", ch |-> c, name |-> "", cls |-> {}, optional |-> FALSE]
Group(name, cls, optional) ==
    [kind |-> "group", ch |-> "", name |-> name, cls |-> cls, optional |-> optional]

\* The pattern field of an entry: absent, or a str that is a regular
\* expression source; wellformed says whether the source is a valid one.
PatAbsent == [present |-> FALSE, wellformed |-> FALSE, bol |-> FALSE, elems |-> <<>>]
PatSrc(bol, elems) == [present |-> TRUE, wellformed |-> TRUE, bol |-> bol, elems |-> elems]
PatBad == [present |-> TRUE, wellformed |-> FALSE, bol |-> FALSE, elems |-> <<>>]

\* re.compile(pattern_str, re.MULTILINE)
re_compile(src) ==
    IF src.wellformed
    THEN [ok |-> TRUE, pat |-> [bol |-> src.bol, elems |-> src.elems, multiline |-> TRUE]]
    ELSE [ok |-> FALSE, pat |-> [bol |-> FALSE, elems |-> <<>>, multiline |-> TRUE]]

GroupNames(pat) == {pat.elems[k].name : k \in {j \in 1..Len(pat.elems) : pat.elems[j].kind = "group"}}

NoMatchResult == [ok |-> FALSE, caps |-> <<>>]

\* The backtracking matcher: elements k.. of elems against text from pos.
RECURSIVE MatchFrom(_, _, _, _, _)
MatchFrom(elems, k, text, pos, caps) ==
    IF k > Len(elems) THEN [ok |-> TRUE, caps |-> caps]
    ELSE LET e == elems[k]
             here == pos <= Len(text)
         IN  IF e.kind = "lit"
             THEN IF here /\ text[pos] = e.ch
                  THEN MatchFrom(elems, k + 1, text, pos + 1, caps)
                  ELSE NoMatchResult
             ELSE LET take == IF here /\ text[pos] \in e.cls
                              THEN MatchFrom(elems, k + 1, text, pos + 1,
                                             [caps EXCEPT ![e.name] = Str(<<text[pos]>>)])
                              ELSE NoMatchResult
                  IN  IF take.ok THEN take
                      ELSE IF e.optional
                           THEN MatchFrom(elems, k + 1, text, pos, caps)
                           ELSE NoMatchResult

\* Where "^" matches: the start of the text and, in multiline mode, after
\* every newline.
AtLineStart(pat, text, pos) ==
    pos = 1 \/ (pat.multiline /\ text[pos - 1] = NL)

MatchAt(pat, text, pos) ==
    IF pat.bol /\ ~AtLineStart(pat, text, pos) THEN NoMatchResult
    ELSE MatchFrom(pat.elems, 1, text, pos, [g \in GroupNames(pat) |-> NoneVal])

\* Pattern.search(text): the leftmost position where the pattern matches;
\* caps is then Match.groupdict(), None for a group that did not take part.
search(pat, text) ==
    LET starts == {p \in 1..(Len(text) + 1) : MatchAt(pat, text, p).ok}
    IN  IF starts = {} THEN NoMatchResult
        ELSE MatchAt(pat, text, CHOOSE p \in starts : \A q \in starts : p <= q)

(***************************************************************************)
(* Templates.                                                              *)
(***************************************************************************)
TLit(c) == [kind |-> "lit", v |-> c]
TVar(name) == [kind |-> "var", v |-> name]
TRaise == [kind |-> "raise", v |-> ""]

TplAbsent == [present |-> FALSE, wellformed |-> FALSE, pieces |-> <<>>]
TplSrc(pieces) == [present |-> TRUE, wellformed |-> TRUE, pieces |-> pieces]
TplBad == [present |-> TRUE, wellformed |-> FALSE, pieces |-> <<>>]

\* Template(template_str): TemplateSyntaxError for a malformed source.
Template(src) ==
    IF src.wellformed THEN [ok |-> TRUE, tpl |-> src.pieces] ELSE [ok |-> FALSE, tpl |-> <<>>]

NoneText == <<"N", "o", "n", "e">>

\* What "{{ name }}" writes for a value of the context: str(value).
to_str(v) == IF v.isNone THEN NoneText ELSE v.s

\* Template.render(**data): pieces are written in order; a name the context
\* lacks is Undefined and writes nothing; a raising expression ends the
\* rendering with its exception.
RECURSIVE render(_, _)
render(pieces, data) ==
    IF pieces = <<>> THEN [ok |-> TRUE, text |-> <<>>]
    ELSE LET p == Head(pieces)
         IN  IF p.kind = "raise" THEN [ok |-> FALSE, text |-> <<>>]
             ELSE LET rest == render(Tail(pieces), data)
                      here == IF p.kind = "lit" THEN <<p.v>>
                              ELSE IF p.v \in DOMAIN data THEN to_str(data[p.v])
                              ELSE <<>>
                  IN  IF rest.ok THEN [ok |-> TRUE, text |-> here \o rest.text]
                      ELSE [ok |-> FALSE, text |-> <<>>]

(***************************************************************************)
(* The rule file (RULES_FILE) and load_rules.                              *)
(***************************************************************************)
Entry(pattern, topic_id, template) ==
    [pattern |-> pattern, topic_id |-> topic_id, template |-> template]

\* ^E(?P<code>4)?   ->   C{{code}}
PatErr == PatSrc(TRUE, <<Lit("E"), Group("code", {"4"}, TRUE)>>)
TplCode == TplSrc(<<TLit("C"), TVar("code")>>)
\* E4                ->   {{other}}{{_raw}}
PatE4 == PatSrc(FALSE, <<Lit("E"), Lit("4")>>)
TplRaw == TplSrc(<<TVar("other"), TVar("_raw")>>)
\* (?P<code>4)?      ->   {{code}}{{ 1/0 }}
PatOpt == PatSrc(FALSE, <<Group("code", {"4"}, TRUE)>>)
TplRaise == TplSrc(<<TVar("code"), TRaise>>)

\* Entries with the three keys, a pattern and a template that compile and
\* an integer topic_id.
WellFormedEntries ==
    { Entry(PatErr, YInt(5), TplCode),
      Entry(PatE4, YInt(7), TplRaw),
      Entry(PatOpt, YInt(5), TplRaise) }

\* Entries whose topic_id is of another YAML type.
OtherTypedEntries ==
    { Entry(PatE4, YStr(<<"1", "2">>), TplCode),
      Entry(PatE4, YFloat(57), TplCode),
      Entry(PatE4, YBool(TRUE), TplCode),
      Entry(PatE4, YStr(<<"E">>), TplCode),
      Entry(PatE4, YNull, TplCode) }

\* Entries lacking a key, or whose pattern or template does not compile.
MalformedEntries ==
    { Entry(PatAbsent, YInt(5), TplCode),
      Entry(PatErr, YAbsent, TplCode),
      Entry(PatErr, YInt(5), TplAbsent),
      Entry(PatBad, YInt(5), TplCode),
      Entry(PatErr, YInt(5), TplBad) }

\* The rule lists of the model: every list of well-formed entries, and
\* every list of the first well-formed entry with one entry, at any
\* position, replaced by an entry of the other kinds.
EntryLists ==
    SeqsUpTo(WellFormedEntries, MaxRules)
    \cup { [k \in 1..n |-> IF k = p THEN e ELSE Entry(PatErr, YInt(5), TplCode)] :
             n \in 1..MaxRules, p \in 1..MaxRules,
             e \in OtherTypedEntries \cup MalformedEntries }

\* What yaml.safe_load finds in the file, or why it cannot: kind is
\* "notfound", "badyaml" or the type of the document's root; items are a
\* sequence's entries; n is an int's value, a bool's 0/1, the size of a
\* mapping or the length of a str.
Doc(kind, items, n) == [kind |-> kind, items |-> items, n |-> n]

RuleFiles ==
    {Doc("seq", items, 0) : items \in EntryLists}
    \cup {Doc("notfound", <<>>, 0), Doc("badyaml", <<>>, 0), Doc("null", <<>>, 0),
          Doc("map", <<>>, 0), Doc("map", <<>>, 1), Doc("int", <<>>, 0),
          Doc("int", <<>>, 3), Doc("bool", <<>>, 0), Doc("bool", <<>>, 1),
          Doc("str", <<>>, 0), Doc("str", <<>>, 1)}

\* Python truth value of a loaded document.
Falsy(doc) ==
    \/ doc.kind = "null"
    \/ doc.kind = "seq" /\ doc.items = <<>>
    \/ doc.kind \in {"map", "int", "bool", "str"} /\ doc.n = 0

Rule(pattern, topic_id, template) ==
    [pattern |-> pattern, topic_id |-> topic_id, template |-> template]

LoadFailed(err) == [ok |-> FALSE, rules |-> <<>>, err |-> err]

\* How a call of load_rules ends: with an exception, or with the list
\* after lines 73-75.
LoadRaised(r) == [ok |-> FALSE, rules |-> <<>>, err |-> r.err, warn |-> FALSE]
LoadReturned(rules) == [ok |-> TRUE, rules |-> rules, err |-> "", warn |-> rules = <<>>]

\* One pass of the loop body, lines 57-70, for the entry r.
load_entry(r) ==
    IF ~r.pattern.present \/ r.topic_id.ty = "absent" THEN [ok |-> FALSE, err |-> "KeyError"]
    ELSE IF ~int_of(r.topic_id).ok
    THEN [ok |-> FALSE, err |-> IF r.topic_id.ty = "str" THEN "ValueError" ELSE "TypeError"]
    ELSE IF ~r.template.present THEN [ok |-> FALSE, err |-> "KeyError"]
    ELSE IF ~re_compile(r.pattern).ok THEN [ok |-> FALSE, err |-> "re.error"]
    ELSE IF ~Template(r.template).ok THEN [ok |-> FALSE, err |-> "TemplateSyntaxError"]
    ELSE [ok |-> TRUE, err |-> ""]

compiled(r) == Rule(re_compile(r.pattern).pat, int_of(r.topic_id).n, Template(r.template).tpl)

\* A loop that puts each rule in front of the list (rules.insert(0, ...)).
RECURSIVE load_loop_prepend(_, _, _)
load_loop_prepend(raw, i, rules) ==
    IF i > Len(raw) THEN [ok |-> TRUE, rules |-> rules, err |-> ""]
    ELSE IF ~load_entry(raw[i]).ok THEN LoadFailed(load_entry(raw[i]).err)
    ELSE load_loop_prepend(raw, i + 1, <<compiled(raw[i])>> \o rules)

\* A loop that logs a bad entry and goes on to the next ("continue").
RECURSIVE load_loop_skip(_, _, _)
load_loop_skip(raw, i, rules) ==
    IF i > Len(raw) THEN [ok |-> TRUE, rules |-> rules, err |-> ""]
    ELSE IF ~load_entry(raw[i]).ok THEN load_loop_skip(raw, i + 1, rules)
    ELSE load_loop_skip(raw, i + 1, Append(rules, compiled(raw[i])))

\* The loop of lines 56-71 from entry i on, rules being the list so far.
RECURSIVE load_loop(_, _, _)
load_loop(raw, i, rules) ==
    IF i > Len(raw) THEN [ok |-> TRUE, rules |-> rules, err |-> ""]
    ELSE IF ~load_entry(raw[i]).ok THEN LoadFailed(load_entry(raw[i]).err)
    ELSE load_loop(raw, i + 1, Append(rules, compiled(raw[i])))

\* A loader that refuses a file without rules.
load_rules_nonempty(file) ==
    IF file.kind \in {"notfound", "badyaml"} THEN LoadRaised(LoadFailed("FileNotFoundError"))
    ELSE LET raw == IF Falsy(file) THEN Doc("seq", <<>>, 0) ELSE file
         IN  IF raw.kind # "seq" \/ raw.items = <<>> THEN LoadRaised(LoadFailed("SystemExit"))
             ELSE IF ~load_loop(raw.items, 1, <<>>).ok
             THEN LoadRaised(load_loop(raw.items, 1, <<>>))
             ELSE LoadReturned(load_loop(raw.items, 1, <<>>).rules)

\* Lines 40-75.  warn says that the warning of line 74 was logged.
load_rules(file) ==
    IF file.kind = "notfound" THEN LoadRaised(LoadFailed("FileNotFoundError"))
    ELSE IF file.kind = "badyaml" THEN LoadRaised(LoadFailed("YAMLError"))
    ELSE LET raw == IF Falsy(file) THEN Doc("seq", <<>>, 0) ELSE file
         IN  IF raw.kind # "seq" THEN LoadRaised(LoadFailed("SystemExit"))
             ELSE IF ~load_loop(raw.items, 1, <<>>).ok
             THEN LoadRaised(load_loop(raw.items, 1, <<>>))
             ELSE LoadReturned(load_loop(raw.items, 1, <<>>).rules)

(***************************************************************************)
(* The process environment.                                                *)
(***************************************************************************)
Unset == [set |-> FALSE, s |-> <<>>]
Set(s) == [set |-> TRUE, s |-> s]

Environs ==
    [BOT_TOKEN : {Unset, Set(<<"t">>)},
     SUPERCHAT_ID : {Unset, Set(<<"-", "1">>), Set(<<"E">>)},
     SOURCE_CHANNEL_ID : {Unset, Set(<<>>), Set(<<"-", "2">>), Set(<<"E">>)}]

\* Python values of the module's globals: None, an int or a str.
PyNone == [ty |-> "None", n |-> 0, s |-> <<>>]
PyInt(n) == [ty |-> "int", n |-> n, s |-> <<>>]
PyStr(s) == [ty |-> "str", n |-> 0, s |-> s]

\* Two channels; the first is the one SOURCE_CHANNEL_ID names when it is set.
ThisChat == 0 - 2
OtherChat == 0 - 3

(***************************************************************************)
(* State.                                                                  *)
(***************************************************************************)
VARIABLES
    pc,                 \* where the process is: "env", "rules", "main",
                        \* "polling", "stopped" or "exited"
    environ,            \* os.environ after load_dotenv
    rulesFile,          \* the content of RULES_FILE
    BOT_TOKEN,          \* the module's globals
    SUPERCHAT_ID,
    SOURCE_CHANNEL_ID,
    RULES,              \* [bound, rules]: unbound until line 77 has assigned it
    loads,              \* how many times load_rules has been called
    exitCause,          \* the exception that ended the process, "" if none
    inv,                \* the handler invocation of the update being processed
    inv2,               \* a second handler invocation, for the specification
                        \* in which the handler is entered concurrently
    warned,             \* load_rules has logged "rules file is empty"
    sendFailedBefore,   \* a send_message of an earlier update has raised
    repeat              \* history: "same" or "differs" when the update being
                        \* processed routes the text the one before it routed,
                        \* according to whether the two were routed alike

vars == <<pc, environ, rulesFile, BOT_TOKEN, SUPERCHAT_ID, SOURCE_CHANNEL_ID, RULES,
          loads, exitCause, inv, inv2, warned, sendFailedBefore, repeat>>

NoUpdate == [has_post |-> FALSE, chat_id |-> 0, text |-> <<>>, caption |-> <<>>]
Post(chat_id, text, caption) ==
    [has_post |-> TRUE, chat_id |-> chat_id, text |-> text, caption |-> caption]

\* A post carries a text or, with its media, a caption; one post of the
\* model carries both.  Posts of the first channel carry every text, posts
\* of the other channel a few.
Captions == {<<>>, <<"E">>}
OtherTexts == {<<"E">>, <<"E", "4">>}
Updates ==
    {NoUpdate}
    \cup {Post(ThisChat, t, <<>>) : t \in Texts}
    \cup {Post(ThisChat, <<>>, cap) : cap \in Captions}
    \cup {Post(ThisChat, <<"4">>, <<"E">>)}
    \cup {Post(OtherChat, t, <<>>) : t \in OtherTexts}
    \cup {Post(OtherChat, <<>>, cap) : cap \in Captions}

NoCall == [chat_id |-> 0, text |-> <<>>, message_thread_id |-> 0,
           parse_mode |-> "None", disable_web_page_preview |-> FALSE]

\* An invocation of handle_channel_post for an update.  pc is "idle" (no
\* update yet), "send" (suspended in the awaited send_message) or "done";
\* text is the argument of match_and_send; searched and rendered are the
\* indices of the rules whose pattern was searched and whose template was
\* rendered; i is the index of the rule the loop stopped at; sends counts
\* the send_message calls and call is the last one's arguments; outcome
\* names the path taken and escaped says that an exception left
\* match_and_send; send_result is "returned" or "raised" once the awaited
\* send_message has done so.
Invocation(update) ==
    [pc |-> "idle", update |-> update, text |-> <<>>, i |-> 0, searched |-> {},
     rendered |-> {}, out_text |-> <<>>, sends |-> 0, call |-> NoCall,
     outcome |-> "", escaped |-> FALSE, send_result |-> ""]

Finish(st, outcome) == [st EXCEPT !.pc = "done", !.outcome = outcome]

(***************************************************************************)
(* match_and_send and handle_channel_post.                                 *)
(***************************************************************************)
\* A body that sends to the topic of the first rule of the list.
loop_body_first_topic(rules, text, i, m, st) ==
    LET data == [k \in DOMAIN m.caps \cup {"_raw"} |->
                    IF k = "_raw" THEN Str(text) ELSE m.caps[k]]
        out  == render(rules[i].template, data)
        st1  == [st EXCEPT !.i = i, !.rendered = @ \cup {i}]
    IN  IF ~out.ok THEN [Finish(st1, "Raised") EXCEPT !.escaped = TRUE]
        ELSE [st1 EXCEPT !.pc = "send",
                         !.out_text = out.text,
                         !.sends = @ + 1,
                         !.call = [chat_id |-> SUPERCHAT_ID.n,
                                   text |-> out.text,
                                   message_thread_id |-> rules[1].topic_id,
                                   parse_mode |-> "None",
                                   disable_web_page_preview |-> TRUE]]

\* Lines 86-96: the body of the loop for rule i, found by match m, up to
\* the awaited send_message.
loop_body(rules, text, i, m, st) ==
    LET data == [k \in DOMAIN m.caps \cup {"_raw"} |->
                    IF k = "_raw" THEN Str(text) ELSE m.caps[k]]
        out  == render(rules[i].template, data)
        st1  == [st EXCEPT !.i = i, !.rendered = @ \cup {i}]
    IN  IF ~out.ok THEN [Finish(st1, "Raised") EXCEPT !.escaped = TRUE]
        ELSE [st1 EXCEPT !.pc = "send",
                         !.out_text = out.text,
                         !.sends = @ + 1,
                         !.call = [chat_id |-> SUPERCHAT_ID.n,
                                   text |-> out.text,
                                   message_thread_id |-> rules[i].topic_id,
                                   parse_mode |-> "None",
                                   disable_web_page_preview |-> TRUE]]

\* A loop that searches every pattern before it picks the first match.
for_rules_eager(rules, text, i, st) ==
    LET hits == {k \in i..Len(rules) : search(rules[k].pattern, text).ok}
        st1  == [st EXCEPT !.searched = @ \cup (i..Len(rules))]
    IN  IF hits = {} THEN Finish(st1, "NoMatch")
        ELSE LET f == CHOOSE k \in hits : \A j \in hits : k <= j
             IN  loop_body(rules, text, f, search(rules[f].pattern, text), st1)

\* A loop whose test is inverted: "if m: continue", so that the body runs
\* for a rule that did not match and m.groupdict() raises.
RECURSIVE for_rules_inverted(_, _, _, _)
for_rules_inverted(rules, text, i, st) ==
    IF i > Len(rules) THEN Finish(st, "NoMatch")
    ELSE LET m   == search(rules[i].pattern, text)
             st1 == [st EXCEPT !.searched = @ \cup {i}]
         IN  IF m.ok THEN for_rules_inverted(rules, text, i + 1, st1)
             ELSE [Finish(st1, "Raised") EXCEPT !.escaped = TRUE]

\* Lines 82-85: the loop over RULES from rule i on.
RECURSIVE for_rules(_, _, _, _)
for_rules(rules, text, i, st) ==
    IF i > Len(rules) THEN Finish(st, "NoMatch")
    ELSE LET m   == search(rules[i].pattern, text)
             st1 == [st EXCEPT !.searched = @ \cup {i}]
         IN  IF ~m.ok THEN for_rules(rules, text, i + 1, st1)
             ELSE loop_body(rules, text, i, m, st1)

\* match_and_send without the test of lines 80-81.
match_and_send_unguarded(text, st) ==
    for_rules(RULES.rules, text, 1, [st EXCEPT !.text = text])

\* Lines 80-82: match_and_send(text, context) up to its first suspension.
match_and_send(text, st) ==
    IF text = <<>> THEN Finish([st EXCEPT !.text = text], "Skipped")
    ELSE for_rules(RULES.rules, text, 1, [st EXCEPT !.text = text])

\* A resumption that sends again when send_message has raised.
after_send_retry(st, ok) ==
    IF ok THEN Finish(st, "Delivered") ELSE [st EXCEPT !.sends = @ + 1]

\* A resumption without the try of lines 89-99: the exception of
\* send_message leaves match_and_send.
after_send_uncaught(st, ok) ==
    IF ok THEN Finish(st, "Delivered") ELSE [Finish(st, "Raised") EXCEPT !.escaped = TRUE]

\* Lines 97-100: match_and_send resumed when send_message has returned
\* (ok) or raised.
after_send(st, ok) ==
    IF ok THEN Finish(st, "Delivered") ELSE Finish(st, "DeliveryFailed")

\* The caption taken before the text: msg.caption or msg.text or "".
text_of_caption_first(msg) == IF msg.caption # <<>> THEN msg.caption ELSE msg.text

\* msg.text or msg.caption or ""
text_of(msg) == IF msg.text # <<>> THEN msg.text ELSE msg.caption

\* msg.chat_id != SOURCE_CHANNEL_ID
differs(chat_id, source) == ~(source.ty = "int" /\ source.n = chat_id)

\* The invocation st has called match_and_send.
HasRouted(st) == st.pc \in {"send", "done"} /\ st.outcome \notin {"NoPost", "Filtered"}

\* A handler without the test of lines 108-109.
handle_channel_post_unfiltered(update) ==
    LET st == Invocation(update)
    IN  IF ~update.has_post THEN Finish(st, "NoPost")
        ELSE match_and_send(text_of(update), st)

\* A handler that drops a post whose text it has just sent.
handle_channel_post_dedup(update) ==
    LET st == Invocation(update)
    IN  IF ~update.has_post THEN Finish(st, "NoPost")
        ELSE IF SOURCE_CHANNEL_ID.ty # "None" /\ differs(update.chat_id, SOURCE_CHANNEL_ID)
        THEN Finish(st, "Filtered")
        ELSE IF HasRouted(inv) /\ inv.sends > 0 /\ inv.text = text_of(update)
        THEN Finish([st EXCEPT !.text = text_of(update)], "Skipped")
        ELSE match_and_send(text_of(update), st)

\* Lines 103-111.
handle_channel_post(update) ==
    LET st == Invocation(update)
    IN  IF ~update.has_post THEN Finish(st, "NoPost")
        ELSE IF SOURCE_CHANNEL_ID.ty # "None" /\ differs(update.chat_id, SOURCE_CHANNEL_ID)
        THEN Finish(st, "Filtered")
        ELSE match_and_send(text_of(update), st)

(***************************************************************************)
(* Startup.                                                                *)
(***************************************************************************)
Init ==
    /\ pc = "env"
    /\ environ \in Environs
    /\ rulesFile \in RuleFiles
    /\ BOT_TOKEN = Unset
    /\ SUPERCHAT_ID = PyNone
    /\ SOURCE_CHANNEL_ID = PyNone
    /\ RULES = [bound |-> FALSE, rules |-> <<>>]
    /\ loads = 0
    /\ exitCause = ""
    /\ inv = Invocation(NoUpdate)
    /\ inv2 = Invocation(NoUpdate)
    /\ warned = FALSE
    /\ sendFailedBefore = FALSE
    /\ repeat = "none"

Exit(cause) == pc' = "exited" /\ exitCause' = cause

\* A startup that reads SUPERCHAT_ID with a default instead of failing.
required_env_lenient(env) ==
    IF ~env.BOT_TOKEN.set THEN "SystemExit"
    ELSE IF env.SUPERCHAT_ID.set /\ ~int_of_str(env.SUPERCHAT_ID.s).ok THEN "ValueError"
    ELSE ""

\* Lines 21-25: "" when both required variables are read, else the
\* exception that ends the process.
required_env(env) ==
    IF ~env.BOT_TOKEN.set \/ ~env.SUPERCHAT_ID.set THEN "SystemExit"
    ELSE IF ~int_of_str(env.SUPERCHAT_ID.s).ok THEN "ValueError"
    ELSE ""

\* Lines 28-30: the value SOURCE_CHANNEL_ID is left with.
source_channel(env) ==
    IF ~env.SOURCE_CHANNEL_ID.set THEN [ok |-> TRUE, v |-> PyNone]
    ELSE IF env.SOURCE_CHANNEL_ID.s = <<>> THEN [ok |-> TRUE, v |-> PyStr(<<>>)]
    ELSE IF int_of_str(env.SOURCE_CHANNEL_ID.s).ok
    THEN [ok |-> TRUE, v |-> PyInt(int_of_str(env.SOURCE_CHANNEL_ID.s).n)]
    ELSE [ok |-> FALSE, v |-> PyNone]

\* Lines 21-30.
ReadEnv ==
    /\ pc = "env"
    /\ IF required_env(environ) # ""
       THEN /\ Exit(required_env(environ))
            /\ BOT_TOKEN' = IF environ.BOT_TOKEN.set THEN environ.BOT_TOKEN ELSE BOT_TOKEN
            /\ UNCHANGED <<SUPERCHAT_ID, SOURCE_CHANNEL_ID>>
       ELSE /\ BOT_TOKEN' = environ.BOT_TOKEN
            /\ SUPERCHAT_ID' = PyInt(int_of_str(environ.SUPERCHAT_ID.s).n)
            /\ IF source_channel(environ).ok
               THEN /\ SOURCE_CHANNEL_ID' = source_channel(environ).v
                    /\ pc' = "rules"
                    /\ UNCHANGED exitCause
               ELSE /\ SOURCE_CHANNEL_ID' = PyStr(environ.SOURCE_CHANNEL_ID.s)
                    /\ Exit("ValueError")
    /\ UNCHANGED <<environ, rulesFile, RULES, loads, inv, inv2, warned, sendFailedBefore,
                   repeat>>

\* Line 77: RULES = load_rules(RULES_FILE).  The assignment happens only
\* when the call returns.
LoadRules ==
    /\ pc = "rules"
    /\ loads' = loads + 1
    /\ IF load_rules(rulesFile).ok
       THEN /\ RULES' = [bound |-> TRUE, rules |-> load_rules(rulesFile).rules]
            /\ pc' = "main"
            /\ UNCHANGED exitCause
       ELSE /\ Exit(load_rules(rulesFile).err)
            /\ UNCHANGED RULES
    /\ warned' = load_rules(rulesFile).warn
    /\ UNCHANGED <<environ, rulesFile, BOT_TOKEN, SUPERCHAT_ID, SOURCE_CHANNEL_ID, inv,
                   inv2, sendFailedBefore, repeat>>

\* Lines 113-125: main builds the application, registers the handler and
\* starts polling for channel posts.
Main ==
    /\ pc = "main"
    /\ pc' = "polling"
    /\ UNCHANGED <<environ, rulesFile, BOT_TOKEN, SUPERCHAT_ID, SOURCE_CHANNEL_ID, RULES,
                   loads, exitCause, inv, inv2, warned, sendFailedBefore, repeat>>

(***************************************************************************)
(* Serving.  The application hands the handler one update at a time.       *)
(***************************************************************************)
\* The rule chosen, the text rendered and the destination of an invocation.
DecisionOf(st) ==
    [i |-> st.i, rendered |-> st.rendered, out_text |-> st.out_text, sends |-> st.sends,
     call |-> st.call]

\* The history value for the invocation new that follows the invocation prev.
Compared(prev, new) ==
    IF HasRouted(prev) /\ HasRouted(new) /\ new.text = prev.text
    THEN IF DecisionOf(new) = DecisionOf(prev) THEN "same" ELSE "differs"
    ELSE "none"

\* The handler runs for an update up to its end or to the awaited
\* send_message.  An exception that leaves the handler is logged by the
\* application, which goes on polling.
HandleUpdate(update) ==
    /\ pc = "polling"
    /\ inv.pc # "send"
    /\ inv' = handle_channel_post(update)
    /\ sendFailedBefore' = (sendFailedBefore \/ inv.send_result = "raised")
    /\ repeat' = Compared(inv, handle_channel_post(update))
    /\ UNCHANGED <<pc, environ, rulesFile, BOT_TOKEN, SUPERCHAT_ID, SOURCE_CHANNEL_ID,
                   RULES, loads, exitCause, inv2, warned>>

\* send_message returns, or raises.
SendDone(ok) ==
    /\ pc = "polling"
    /\ inv.pc = "send"
    /\ inv' = after_send([inv EXCEPT !.send_result = IF ok THEN "returned" ELSE "raised"], ok)
    /\ UNCHANGED <<pc, environ, rulesFile, BOT_TOKEN, SUPERCHAT_ID, SOURCE_CHANNEL_ID,
                   RULES, loads, exitCause, inv2, warned, sendFailedBefore, repeat>>

\* Lines 126-129: the wait of line 125 is cancelled and main stops the
\* application.
Shutdown ==
    /\ pc = "polling"
    /\ inv.pc # "send"
    /\ pc' = "stopped"
    /\ UNCHANGED <<environ, rulesFile, BOT_TOKEN, SUPERCHAT_ID, SOURCE_CHANNEL_ID, RULES,
                   loads, exitCause, inv, inv2, warned, sendFailedBefore, repeat>>

Next ==
    \/ ReadEnv
    \/ LoadRules
    \/ Main
    \/ \E update \in Updates : HandleUpdate(update)
    \/ \E ok \in BOOLEAN : SendDone(ok)
    \/ Shutdown

Spec == Init /\ [][Next]_vars

(***************************************************************************)
(* Concurrent entry.  The handler is entered for a post of one channel     *)
(* while the invocation for a post of the other channel is suspended in    *)
(* send_message; the posts of one channel are handled one at a time.  inv  *)
(* is the invocation for the first channel, inv2 the one for the other.    *)
(***************************************************************************)
\* Locals kept in one place shared by all invocations: the rule, the
\* rendered text and the call of a suspended invocation become those of
\* the invocation that ran last.
frame_shared(st, other) ==
    IF st.pc = "send" /\ other.pc = "send"
    THEN [st EXCEPT !.i = other.i, !.out_text = other.out_text, !.call = other.call]
    ELSE st

\* Lines 79-96: text, rule, m, data and out_text are locals of the
\* invocation, so the invocation st is left as it is while the invocation
\* other runs.
frame_kept(st, other) == st

InitConcurrent ==
    /\ Init
    /\ environ = [BOT_TOKEN |-> Set(<<"t">>), SUPERCHAT_ID |-> Set(<<"-", "1">>),
                  SOURCE_CHANNEL_ID |-> Unset]
    /\ rulesFile \in {Doc("seq", items, 0) : items \in SeqsUpTo(WellFormedEntries, MaxRules)}

HandleThisSource(update) ==
    /\ pc = "polling"
    /\ inv.pc # "send"
    /\ update.has_post /\ update.chat_id = ThisChat
    /\ inv' = handle_channel_post(update)
    /\ inv2' = frame_kept(inv2, inv')
    /\ UNCHANGED <<pc, environ, rulesFile, BOT_TOKEN, SUPERCHAT_ID, SOURCE_CHANNEL_ID,
                   RULES, loads, exitCause, warned, sendFailedBefore, repeat>>

HandleOtherSource(update) ==
    /\ pc = "polling"
    /\ inv2.pc # "send"
    /\ update.has_post /\ update.chat_id = OtherChat
    /\ inv2' = handle_channel_post(update)
    /\ inv' = frame_kept(inv, inv2')
    /\ UNCHANGED <<pc, environ, rulesFile, BOT_TOKEN, SUPERCHAT_ID, SOURCE_CHANNEL_ID,
                   RULES, loads, exitCause, warned, sendFailedBefore, repeat>>

SendDoneOther(ok) ==
    /\ pc = "polling"
    /\ inv2.pc = "send"
    /\ inv2' = after_send([inv2 EXCEPT !.send_result = IF ok THEN "returned" ELSE "raised"], ok)
    /\ UNCHANGED <<pc, environ, rulesFile, BOT_TOKEN, SUPERCHAT_ID, SOURCE_CHANNEL_ID,
                   RULES, loads, exitCause, inv, warned, sendFailedBefore, repeat>>

NextConcurrent ==
    \/ ReadEnv
    \/ LoadRules
    \/ Main
    \/ \E update \in Updates : HandleThisSource(update)
    \/ \E update \in Updates : HandleOtherSource(update)
    \/ \E ok \in BOOLEAN : SendDone(ok)
    \/ \E ok \in BOOLEAN : SendDoneOther(ok)

SpecConcurrent == InitConcurrent /\ [][NextConcurrent]_vars

(***************************************************************************)
(* Reference definitions of the properties.                                *)
(***************************************************************************)
\* The lowest index of a rule whose pattern is found in text, 0 if none.
FirstMatch(rules, text) ==
    LET hits == {k \in 1..Len(rules) : search(rules[k].pattern, text).ok}
    IN  IF hits = {} THEN 0 ELSE CHOOSE k \in hits : \A j \in hits : k <= j

\* The template context of a rule matched on text; absent says what a
\* group that took no part in the match is given as.
ContextOf(rule, text, absent) ==
    LET caps == search(rule.pattern, text).caps
    IN  [k \in DOMAIN caps \cup {"_raw"} |->
            IF k = "_raw" THEN Str(text)
            ELSE IF caps[k].isNone THEN absent ELSE caps[k]]

RenderedBy(rule, text) == render(rule.template, ContextOf(rule, text, NoneVal))

\* The invocation has called match_and_send.
Routed == inv.pc \in {"send", "done"} /\ inv.outcome \notin {"NoPost", "Filtered"}

\* The rules the rule file holds.
FileRules == load_rules(rulesFile).rules

\* C1: first match wins.  For a non-empty text whose lowest matching rule
\* is rule f, the patterns searched are exactly those of rules 1..f, the
\* only template rendered is rule f's, and the send_message made (one,
\* unless rendering raised) goes to rule f's topic_id.
C1_FirstMatchWins ==
    (Routed /\ inv.text # <<>> /\ FirstMatch(RULES.rules, inv.text) > 0) =>
        LET f == FirstMatch(RULES.rules, inv.text)
        IN  /\ inv.searched = 1..f
            /\ inv.rendered = {f}
            /\ inv.i = f
            /\ inv.sends > 0 => inv.call.message_thread_id = RULES.rules[f].topic_id
            /\ RenderedBy(RULES.rules[f], inv.text).ok => inv.sends = 1

\* A message that the first and the second rule both match was delivered
\* to the first rule's topic, which is not the second's.
C1_Witness ==
    /\ inv.outcome = "Delivered"
    /\ Len(RULES.rules) >= 2
    /\ search(RULES.rules[1].pattern, inv.text).ok
    /\ search(RULES.rules[2].pattern, inv.text).ok
    /\ RULES.rules[1].topic_id # RULES.rules[2].topic_id
    /\ inv.call.message_thread_id = RULES.rules[1].topic_id

\* C2: at most one send_message per inbound message, whatever the rules
\* and whatever the send did; after a send that raised the invocation is
\* over and has sent once.
C2_AtMostOnce ==
    /\ inv.sends <= 1
    /\ inv.send_result = "raised" => (inv.pc = "done" /\ inv.sends = 1)

C2_Witness ==
    inv.send_result = "raised" /\ inv.pc = "done" /\ inv.sends = 1 /\ Len(RULES.rules) >= 2

\* C3: when no rule's pattern is found in the text, nothing is rendered,
\* nothing is sent, no exception leaves match_and_send, and the
\* invocation is over; the loop then ended without a match (NoMatch)
\* whenever it ran, that is for a non-empty text.
C3_NoMatch ==
    (Routed /\ FirstMatch(RULES.rules, inv.text) = 0) =>
        /\ inv.pc = "done"
        /\ inv.rendered = {}
        /\ inv.sends = 0
        /\ ~inv.escaped
        /\ inv.text # <<>> => (inv.outcome = "NoMatch" /\ inv.searched = 1..Len(RULES.rules))

C3_Witness ==
    /\ Routed
    /\ inv.text # <<>>
    /\ Len(RULES.rules) >= 2
    /\ FirstMatch(RULES.rules, inv.text) = 0
    /\ inv.outcome = "NoMatch"

\* C4: match_and_send called with the empty text is Skipped: no pattern
\* is searched, no template rendered and nothing sent, also when a rule's
\* pattern matches the empty string.
C4_EmptySkipped ==
    (Routed /\ inv.text = <<>>) =>
        /\ inv.outcome = "Skipped"
        /\ inv.pc = "done"
        /\ inv.searched = {}
        /\ inv.rendered = {}
        /\ inv.sends = 0

C4_Witness ==
    /\ Routed
    /\ inv.text = <<>>
    /\ inv.outcome = "Skipped"
    /\ FirstMatch(RULES.rules, <<>>) > 0

\* What routing text does on a process that has just started with the
\* rules of the rule file: the rule chosen, whether it sends, and the call.
FreshDecision(text) ==
    LET f == IF text = <<>> THEN 0 ELSE FirstMatch(FileRules, text)
        sends == f > 0 /\ RenderedBy(FileRules[f], text).ok
    IN  [i |-> f,
         sends |-> IF sends THEN 1 ELSE 0,
         call |-> IF sends
                  THEN [chat_id |-> int_of_str(environ.SUPERCHAT_ID.s).n,
                        text |-> RenderedBy(FileRules[f], text).text,
                        message_thread_id |-> FileRules[f].topic_id,
                        parse_mode |-> "None",
                        disable_web_page_preview |-> TRUE]
                  ELSE NoCall]

\* C5: a send_message that raises ends match_and_send with DeliveryFailed,
\* the exception does not leave it and the process has not exited; every
\* message routed after such a failure gets the rule, the rendered text
\* and the send it would get on a freshly started process.
C5_SendFailureRecoverable ==
    /\ inv.send_result = "raised" =>
          /\ inv.pc = "done"
          /\ inv.outcome = "DeliveryFailed"
          /\ ~inv.escaped
          /\ pc \in {"polling", "stopped"}
          /\ exitCause = ""
    /\ (sendFailedBefore /\ Routed) =>
          /\ inv.i = FreshDecision(inv.text).i
          /\ inv.sends = FreshDecision(inv.text).sends
          /\ inv.call = FreshDecision(inv.text).call

\* After a failed send, a later message was matched and delivered.
C5_Witness ==
    sendFailedBefore /\ inv.outcome = "Delivered" /\ inv.send_result = "returned"

\* C6: a template that raises while rendering is caught inside
\* match_and_send and reported as RenderFailed: no exception leaves
\* match_and_send and nothing is sent.
C6_RenderFailureCaught ==
    (Routed /\ inv.i > 0 /\ ~RenderedBy(RULES.rules[inv.i], inv.text).ok) =>
        /\ ~inv.escaped
        /\ inv.outcome = "RenderFailed"
        /\ inv.sends = 0

\* C7: a named group that took no part in the match is rendered as the
\* empty string: the text sent is the template rendered with "" for every
\* such group.
C7_AbsentGroupRendersEmpty ==
    (Routed /\ inv.sends > 0) =>
        inv.out_text = render(RULES.rules[inv.i].template,
                              ContextOf(RULES.rules[inv.i], inv.text, Str(<<>>))).text

\* An entry with its three keys, a pattern and a template that compile and
\* an integer topic_id; a file whose root is a list of such entries.
IsWellFormed(e) ==
    /\ e.pattern.present /\ e.pattern.wellformed
    /\ e.topic_id.ty = "int"
    /\ e.template.present /\ e.template.wellformed

WellFormedFile(file) ==
    file.kind = "seq" /\ \A k \in 1..Len(file.items) : IsWellFormed(file.items[k])

\* C8: for a well-formed rule file of n entries load_rules returns n
\* rules, the k-th with the pattern, topic_id and template of entry k.
C8_LoadKeepsOrder ==
    (loads = 1 /\ WellFormedFile(rulesFile)) =>
        /\ RULES.bound
        /\ Len(RULES.rules) = Len(rulesFile.items)
        /\ \A k \in 1..Len(rulesFile.items) :
              /\ RULES.rules[k].pattern.elems = rulesFile.items[k].pattern.elems
              /\ RULES.rules[k].pattern.bol = rulesFile.items[k].pattern.bol
              /\ RULES.rules[k].topic_id = rulesFile.items[k].topic_id.n
              /\ RULES.rules[k].template = rulesFile.items[k].template.pieces

\* A file of at least two different entries has been loaded.
C8_Witness ==
    /\ loads = 1
    /\ WellFormedFile(rulesFile)
    /\ Len(rulesFile.items) >= 2
    /\ rulesFile.items[1] # rulesFile.items[2]
    /\ Len(RULES.rules) = Len(rulesFile.items)

\* An entry that lacks a key, or whose pattern or template does not compile.
IsMalformed(e) ==
    \/ ~e.pattern.present \/ e.topic_id.ty = "absent" \/ ~e.template.present
    \/ ~e.pattern.wellformed
    \/ ~e.template.wellformed

HasMalformed(file) ==
    file.kind = "seq" /\ \E k \in 1..Len(file.items) : IsMalformed(file.items[k])

\* C9: with a malformed entry at any position of the list, load_rules
\* fails: RULES is never bound (not to the valid entries before the bad
\* one either), the process exits with the exception and never serves.
C9_NoPartialRuleSet ==
    HasMalformed(rulesFile) =>
        /\ ~RULES.bound
        /\ RULES.rules = <<>>
        /\ pc \in {"env", "rules", "exited"}
        /\ loads = 1 => (pc = "exited" /\ exitCause # "")

\* load_rules has failed on a bad entry that follows a valid one.
C9_Witness ==
    /\ loads = 1
    /\ pc = "exited"
    /\ HasMalformed(rulesFile)
    /\ Len(rulesFile.items) >= 2
    /\ IsWellFormed(rulesFile.items[1])
    /\ IsMalformed(rulesFile.items[2])
    /\ ~RULES.bound

\* The process is polling or has polled, or a handler has run.
Serving == pc \in {"polling", "stopped"} \/ inv.pc # "idle"

\* Startup fails: a required variable is missing or load_rules fails.
StartupFails ==
    \/ ~environ.BOT_TOKEN.set
    \/ ~environ.SUPERCHAT_ID.set
    \/ ~load_rules(rulesFile).ok

\* C10: no update is handled and polling does not start unless BOT_TOKEN
\* and SUPERCHAT_ID were present and load_rules had returned; a startup
\* failure ends the process before polling; load_rules is called once and
\* RULES stays what that call returned.
C10_StartupOrdering ==
    /\ Serving =>
          /\ environ.BOT_TOKEN.set /\ BOT_TOKEN = environ.BOT_TOKEN
          /\ environ.SUPERCHAT_ID.set /\ SUPERCHAT_ID.ty = "int"
          /\ RULES.bound
          /\ loads = 1
          /\ RULES.rules = FileRules
          /\ exitCause = ""
    /\ StartupFails => (~Serving /\ pc \in {"env", "rules", "exited"})
    /\ exitCause # "" => (pc = "exited" /\ ~Serving)
    /\ loads <= 1

\* A message has been handled and another one is being sent.
C10_Witness ==
    pc = "polling" /\ inv.pc = "send" /\ sendFailedBefore /\ loads = 1

\* A file whose root is a mapping or a scalar.
NonSequence(file) == file.kind \in {"map", "int", "bool", "str"}

\* C11: load_rules fails for every rule file whose root is not a
\* sequence, the empty mapping, 0, false and the empty string included:
\* RULES is never bound and the process exits.
C11_NonSequenceRejected ==
    NonSequence(rulesFile) =>
        /\ ~RULES.bound
        /\ pc \in {"env", "rules", "exited"}
        /\ loads = 1 => pc = "exited"

\* A list with an entry whose topic_id is a str, a float or a bool.
HasOtherTyped(file) ==
    file.kind = "seq" /\ \E k \in 1..Len(file.items) :
                            file.items[k].topic_id.ty \in {"str", "float", "bool"}

\* C12: load_rules fails for every entry whose topic_id is not an integer:
\* a numeric string, a float or a boolean is rejected, not converted.
C12_WrongTypeRejected ==
    HasOtherTyped(rulesFile) =>
        /\ ~RULES.bound
        /\ pc \in {"env", "rules", "exited"}
        /\ loads = 1 => pc = "exited"

\* A rule file with no entry: an empty list, or an empty file.
ZeroEntries(file) == file.kind = "null" \/ (file.kind = "seq" /\ file.items = <<>>)

\* C13: a rule file with no entry is loaded into an empty list, with the
\* warning and without failure; from then on no message is matched,
\* rendered or delivered and none raises: a non-empty text goes through
\* the loop to NoMatch (the empty text returns before the loop).
C13_EmptyRuleSet ==
    ZeroEntries(rulesFile) =>
        /\ loads = 1 => /\ RULES.bound /\ RULES.rules = <<>>
                        /\ warned
                        /\ exitCause = "" /\ pc # "exited"
        /\ HasRouted(inv) =>
              /\ inv.pc = "done"
              /\ inv.searched = {} /\ inv.rendered = {} /\ inv.sends = 0
              /\ ~inv.escaped
              /\ inv.outcome = IF inv.text = <<>> THEN "Skipped" ELSE "NoMatch"

C13_Witness ==
    /\ rulesFile.kind = "seq" /\ rulesFile.items = <<>>
    /\ RULES.bound /\ warned
    /\ HasRouted(inv) /\ inv.text # <<>> /\ inv.outcome = "NoMatch"

\* SOURCE_CHANNEL_ID is given, with a chat id.
FilterGiven == environ.SOURCE_CHANNEL_ID.set /\ environ.SOURCE_CHANNEL_ID.s # <<>>

\* C14: with a source filter configured, a channel post of another chat
\* is dropped before match_and_send: no pattern searched, nothing rendered
\* or sent; with SOURCE_CHANNEL_ID unset, a channel post of any chat is
\* passed to match_and_send.
C14_SourceFilter ==
    (inv.pc # "idle" /\ inv.update.has_post) =>
        /\ (FilterGiven /\ inv.update.chat_id # int_of_str(environ.SOURCE_CHANNEL_ID.s).n) =>
              /\ inv.pc = "done" /\ inv.outcome = "Filtered"
              /\ inv.searched = {} /\ inv.rendered = {} /\ inv.sends = 0
        /\ ~environ.SOURCE_CHANNEL_ID.set => HasRouted(inv)

\* A post of the other chat that a rule would match has been dropped.
C14_Witness ==
    /\ FilterGiven
    /\ inv.outcome = "Filtered"
    /\ inv.update.chat_id = OtherChat
    /\ inv.update.text # <<>>
    /\ FirstMatch(RULES.rules, inv.update.text) > 0

\* C15: the text given to match_and_send is the post's text when that is
\* not empty, else its caption; a post with neither, or an update without
\* a channel post, is ignored: nothing searched, rendered or sent, no
\* exception.
C15_TextOrCaption ==
    /\ HasRouted(inv) =>
          inv.text = IF inv.update.text # <<>> THEN inv.update.text ELSE inv.update.caption
    /\ (inv.pc # "idle" /\ (~inv.update.has_post
                              \/ (inv.update.text = <<>> /\ inv.update.caption = <<>>))) =>
          /\ inv.pc = "done"
          /\ inv.searched = {} /\ inv.rendered = {} /\ inv.sends = 0
          /\ ~inv.escaped

\* A post with a text and a caption has been routed, and rules searched.
C15_Witness ==
    /\ HasRouted(inv)
    /\ inv.update.text # <<>> /\ inv.update.caption # <<>>
    /\ inv.update.text # inv.update.caption
    /\ inv.text = inv.update.text
    /\ inv.searched # {}

\* C16: routing is idempotent.  A text routed again right after it was
\* routed gets the same rule, rendered text and destination; and whatever
\* was routed before, a text gets the rule, the rendered text and the call
\* that the rules of the rule file alone determine.
C16_Idempotent ==
    /\ repeat # "differs"
    /\ HasRouted(inv) =>
          /\ inv.i = FreshDecision(inv.text).i
          /\ inv.sends = FreshDecision(inv.text).sends
          /\ inv.out_text = FreshDecision(inv.text).call.text
          /\ inv.call.message_thread_id = FreshDecision(inv.text).call.message_thread_id

\* The same text has been sent twice in a row, a failed send among the
\* earlier messages.
C16_Witness ==
    repeat = "same" /\ inv.sends = 1 /\ inv.outcome = "Delivered" /\ sendFailedBefore

\* C17: every send_message goes to the chat SUPERCHAT_ID, in the thread
\* topic_id of the rule that matched the message, with the text rendered
\* from that rule's template and with the link preview disabled.
C17_SendArguments ==
    inv.sends > 0 =>
        LET f == FirstMatch(RULES.rules, inv.text)
        IN  /\ f > 0
            /\ inv.call.chat_id = int_of_str(environ.SUPERCHAT_ID.s).n
            /\ inv.call.chat_id = SUPERCHAT_ID.n
            /\ inv.call.message_thread_id = RULES.rules[f].topic_id
            /\ inv.call.text = RenderedBy(RULES.rules[f], inv.text).text
            /\ inv.call.disable_web_page_preview
            /\ inv.call.parse_mode = "None"

\* The second of two rules with different topics and templates has sent.
C17_Witness ==
    /\ inv.outcome = "Delivered"
    /\ inv.i = 2
    /\ RULES.rules[1].topic_id # RULES.rules[2].topic_id
    /\ RULES.rules[1].template # RULES.rules[2].template
    /\ inv.call.message_thread_id = RULES.rules[2].topic_id

\* The invocation st has the rule, the rendered text, the call and the
\* outcome that it has when it runs alone.
AsAlone(st) ==
    HasRouted(st) =>
        /\ st.i = FreshDecision(st.text).i
        /\ st.sends = FreshDecision(st.text).sends
        /\ st.sends > 0 => (st.out_text = FreshDecision(st.text).call.text
                             /\ st.call = FreshDecision(st.text).call)
        /\ st.send_result = "returned" => st.outcome = "Delivered"
        /\ st.send_result = "raised" => st.outcome = "DeliveryFailed"

C19_PendingSendDoesNotBlock ==
    (pc = "polling" /\ inv.pc = "send") =>
        ENABLED (\E update \in Updates :
                    /\ update.has_post
                    /\ update.chat_id # inv.update.chat_id
                    /\ HandleUpdate(update))

\* C20: once startup has succeeded SOURCE_CHANNEL_ID is None or an int,
\* however the variable was given; given empty it is no filter: a channel
\* post reaches match_and_send.
C20_SourceIsNoneOrInt ==
    pc \in {"rules", "main", "polling", "stopped"} =>
        /\ SOURCE_CHANNEL_ID.ty \in {"None", "int"}
        /\ (environ.SOURCE_CHANNEL_ID.set /\ environ.SOURCE_CHANNEL_ID.s = <<>>
            /\ inv.pc # "idle" /\ inv.update.has_post) => HasRouted(inv)

====
